---- MODULE Spec2Model ----
(***************************************************************************)
(* The authenticated API client (class ApiService) of the admin console:   *)
(* the session token held in memory and in localStorage, the construction  *)
(* of a fetch() request, the classification of its outcome, and the domain *)
(* operations built on request().                                          *)
(*                                                                         *)
(* An async method is modelled by two steps: its invocation, which runs    *)
(* synchronously up to the call of fetch() and leaves a request in flight, *)
(* and its settlement, which takes one outcome of the network call and     *)
(* runs the rest of the method (status check, body parsing, logging, the   *)
(* continuation of login / logout).  Nothing between the resolution of     *)
(* fetch() and the resolution of response.json() reads or writes the       *)
(* session, so the two awaits of request() are settled in one step.        *)
(***************************************************************************)
EXTENDS Integers, Sequences, FiniteSets, Bags, TLC

VARIABLES token, store, inflight, calls, event, reads,
          users, loading, error, filters, pending,
          credentials, formLoading, formError, submitting, formEvent

apiVars == <<token, store, inflight, calls, event, reads>>

uiVars == <<users, loading, error, filters, pending>>

formVars == <<credentials, formLoading, formError, submitting, formEvent>>

vars == <<token, store, inflight, calls, event, reads,
          users, loading, error, filters, pending,
          credentials, formLoading, formError, submitting, formEvent>>

(***************************************************************************)
(* Bounds.                                                                 *)
(***************************************************************************)
MaxCalls == 2
MaxInFlight == 2

(***************************************************************************)
(* Values.                                                                 *)
(***************************************************************************)
NULL == "<null>"
Undefined == "<undefined>"
EmptyStr == ""
Tokens == {"t1", "t2"}

API_BASE_URL == "/api"

\* JavaScript truthiness of the values a token can take (null, undefined,
\* '' are falsy; a non-empty string is truthy).
Truthy(v) == v \notin {NULL, Undefined, EmptyStr}

\* The empty object {}.
EmptyObj == [k \in {} |-> ""]

\* Object spread {...a, ...b}: the keys of both, b's value on a collision.
Spread(a, b) ==
    [k \in (DOMAIN a) \cup (DOMAIN b) |-> IF k \in DOMAIN b THEN b[k] ELSE a[k]]

\* Property read o.k of an object: undefined when the key is missing.
Get(o, k) == IF k \in DOMAIN o THEN o[k] ELSE Undefined

(***************************************************************************)
(* localStorage, slot 'authToken'.                                         *)
(***************************************************************************)
getItem(s) == s

\* Variant: the write is lost, the slot keeps what it held.
setItem_Dropped(s, v) == s

setItem(s, v) == v

removeItem(s) == NULL

(***************************************************************************)
(* ApiService.constructor and ApiService.setToken.                         *)
(***************************************************************************)
NewToken(s) == getItem(s)

\* Variant: an absent argument leaves the in-memory token as it was.
setTokenMem_KeepsOld(t) == IF Truthy(t) THEN t ELSE token

setTokenMem(t) == t

\* Variant: clearing the token leaves the stored item in place.
setTokenStore_NeverRemoves(s, t) == IF Truthy(t) THEN setItem(s, t) ELSE s

setTokenStore(s, t) == IF Truthy(t) THEN setItem(s, t) ELSE removeItem(s)

(***************************************************************************)
(* ApiService.request, up to the call of fetch(): URL and config.          *)
(***************************************************************************)
DefaultHeaders == "Content-Type" :> "application/json"

OptionHeaders(options) ==
    IF "headers" \in DOMAIN options THEN options.headers ELSE EmptyObj

\* const config = { headers: {'Content-Type': ..., ...options.headers}, ...options }
BaseConfig(options) ==
    Spread([headers |-> Spread(DefaultHeaders, OptionHeaders(options))], options)

\* Variant: the Authorization header is set before the caller's headers are
\* merged, so a caller-supplied value wins.
WithAuth_CallerWins(headers, t) ==
    IF Truthy(t) THEN Spread("Authorization" :> ("Bearer " \o t), headers)
    ELSE headers

\* Variant: the Authorization header is written whether or not a token is set.
WithAuth_Always(headers, t) == Spread(headers, "Authorization" :> ("Bearer " \o t))

\* if (this.token) config.headers.Authorization = `Bearer ${this.token}`
WithAuth(headers, t) ==
    IF Truthy(t) THEN Spread(headers, "Authorization" :> ("Bearer " \o t))
    ELSE headers

BuildConfig(options, t) ==
    LET c == BaseConfig(options)
    IN  Spread(c, [headers |-> WithAuth(c.headers, t)])

BuildUrl(endpoint) == API_BASE_URL \o endpoint

(***************************************************************************)
(* ApiService.request, after fetch(): the outcome of the network call is   *)
(* either a rejection (network failure) or a response with a status and a  *)
(* body text.                                                              *)
(***************************************************************************)
Statuses == {200, 401}

responseOk(status) == status >= 200 /\ status <= 299

Malformed == [wellformed |-> FALSE, json |-> EmptyObj]

JsonBody(obj) == [wellformed |-> TRUE, json |-> obj]

ErrorPayload == "error" :> "invalid credentials"

TokenPayload(t) == ("access_token" :> t) @@ ("token_type" :> "bearer")

Payloads == {ErrorPayload} \cup {TokenPayload(t) : t \in Tokens \cup {EmptyStr}}

Bodies == {Malformed} \cup {JsonBody(o) : o \in Payloads}

NetworkFailure == [kind |-> "rejected", status |-> 0, body |-> Malformed]

Response(status, body) == [kind |-> "response", status |-> status, body |-> body]

\* What an error response carries: no JSON at all, or an error object.
ErrorBodies == {Malformed, JsonBody(ErrorPayload)}

\* A rejected fetch, any status with an error body, a 200 with any body.
Outcomes ==
    {NetworkFailure}
      \cup {Response(s, b) : s \in Statuses, b \in ErrorBodies}
      \cup {Response(200, b) : b \in Bodies}

HttpErrorMessage(status) == "HTTP error! status: " \o ToString(status)

\* Variant: a success response carrying an error field is raised as an error.
RequestResult_RaisesOnErrorPayload(o) ==
    IF o.kind = "rejected"
    THEN [threw |-> TRUE, value |-> EmptyObj, error |-> "TypeError: Failed to fetch",
          steps |-> <<"log", "throw">>]
    ELSE IF ~responseOk(o.status)
    THEN [threw |-> TRUE, value |-> EmptyObj, error |-> HttpErrorMessage(o.status),
          steps |-> <<"log", "throw">>]
    ELSE IF ~o.body.wellformed
    THEN [threw |-> TRUE, value |-> EmptyObj, error |-> "SyntaxError",
          steps |-> <<"json", "log", "throw">>]
    ELSE IF "error" \in DOMAIN o.body.json
    THEN [threw |-> TRUE, value |-> EmptyObj, error |-> o.body.json["error"],
          steps |-> <<"json", "log", "throw">>]
    ELSE [threw |-> FALSE, value |-> o.body.json, error |-> "",
          steps |-> <<"json", "return">>]

\* Variant: the body is parsed before the status is checked.
RequestResult_ParsesFirst(o) ==
    IF o.kind = "rejected"
    THEN [threw |-> TRUE, value |-> EmptyObj, error |-> "TypeError: Failed to fetch",
          steps |-> <<"log", "throw">>]
    ELSE IF ~o.body.wellformed
    THEN [threw |-> TRUE, value |-> EmptyObj, error |-> "SyntaxError",
          steps |-> <<"json", "log", "throw">>]
    ELSE IF ~responseOk(o.status)
    THEN [threw |-> TRUE, value |-> EmptyObj, error |-> HttpErrorMessage(o.status),
          steps |-> <<"json", "log", "throw">>]
    ELSE [threw |-> FALSE, value |-> o.body.json, error |-> "",
          steps |-> <<"json", "return">>]

\* Variant: an undecodable body is swallowed and an empty object returned.
RequestResult_SwallowsParseError(o) ==
    IF o.kind = "rejected"
    THEN [threw |-> TRUE, value |-> EmptyObj, error |-> "TypeError: Failed to fetch",
          steps |-> <<"log", "throw">>]
    ELSE IF ~responseOk(o.status)
    THEN [threw |-> TRUE, value |-> EmptyObj, error |-> HttpErrorMessage(o.status),
          steps |-> <<"log", "throw">>]
    ELSE IF ~o.body.wellformed
    THEN [threw |-> FALSE, value |-> EmptyObj, error |-> "",
          steps |-> <<"json", "log", "return">>]
    ELSE [threw |-> FALSE, value |-> o.body.json, error |-> "",
          steps |-> <<"json", "return">>]

\* What request() does with the outcome of fetch(): the steps it takes, in
\* order, and what its caller gets.
RequestResult(o) ==
    IF o.kind = "rejected"
    THEN [threw |-> TRUE, value |-> EmptyObj, error |-> "TypeError: Failed to fetch",
          steps |-> <<"log", "throw">>]
    ELSE IF ~responseOk(o.status)
    THEN [threw |-> TRUE, value |-> EmptyObj, error |-> HttpErrorMessage(o.status),
          steps |-> <<"log", "throw">>]
    ELSE IF ~o.body.wellformed
    THEN [threw |-> TRUE, value |-> EmptyObj, error |-> "SyntaxError",
          steps |-> <<"json", "log", "throw">>]
    ELSE [threw |-> FALSE, value |-> o.body.json, error |-> "",
          steps |-> <<"json", "return">>]

(***************************************************************************)
(* Arguments of the domain operations.                                     *)
(***************************************************************************)
UserIds == {42}

Passwords == {"bad"}

\* JSON.stringify of an object with two members; a string member is quoted,
\* a number member is not.
JsonStr(v) == "\"" \o v \o "\""

JsonNum(n) == ToString(n)

Stringify2(k1, v1, k2, v2) ==
    "{" \o JsonStr(k1) \o ":" \o v1 \o "," \o JsonStr(k2) \o ":" \o v2 \o "}"

\* A filter value of getUsers: null, undefined, a string, a number, a boolean.
PNull == [t |-> "null", str |-> "", num |-> 0]
PUndef == [t |-> "undefined", str |-> "", num |-> 0]
PStr(x) == [t |-> "str", str |-> x, num |-> 0]
PNum(n) == [t |-> "num", str |-> "", num |-> n]

PBool(b) == [t |-> "bool", str |-> IF b THEN "true" ELSE "false", num |-> 0]

\* value.toString()
ValueToString(v) == IF v.t = "num" THEN ToString(v.num) ELSE v.str

\* Variant: the entries are filtered by truthiness, if (value).
Kept_Truthy(v) ==
    ~(v.t = "null" \/ v.t = "undefined" \/ (v.t = "str" /\ v.str = "")
      \/ (v.t = "num" /\ v.num = 0) \/ (v.t = "bool" /\ v.str = "false"))

\* value !== null && value !== undefined && value !== ''
Kept(v) == ~(v.t = "null" \/ v.t = "undefined" \/ (v.t = "str" /\ v.str = ""))

\* URLSearchParams: append(key, value) for the kept entries, in the order of
\* Object.entries, then toString(): key=value joined by '&'.  The keys and
\* values used here contain no character that is percent-encoded.
RECURSIVE QueryString(_)
QueryString(entries) ==
    IF entries = <<>> THEN ""
    ELSE LET e == Head(entries)
             rest == QueryString(Tail(entries))
         IN  IF ~Kept(e.value) THEN rest
             ELSE e.key \o "=" \o ValueToString(e.value)
                  \o (IF rest = "" THEN "" ELSE "&" \o rest)

Filters(isActive, role) ==
    << [key |-> "is_active", value |-> isActive], [key |-> "role", value |-> role],
       [key |-> "limit", value |-> PNum(50)], [key |-> "offset", value |-> PNum(0)] >>

ParamSets == {Filters(PStr(""), PStr("ADMIN"))}

\* Options with caller-supplied headers, for direct calls of request().
HeaderSets ==
    { EmptyObj,
      ("Authorization" :> "Basic evil") @@ ("X-Trace" :> "a"),
      "Content-Type" :> "text/plain" }

SetTokenArgs == Tokens \cup {NULL, EmptyStr}

(***************************************************************************)
(* State.                                                                  *)
(*   token     this.token of the one ApiService instance                   *)
(*   store     localStorage slot 'authToken' (NULL when there is no item)  *)
(*   inflight  the requests handed to fetch() that have not settled, a bag *)
(*             (two calls may hand fetch() the same url and config)        *)
(*   calls     number of requests issued so far                            *)
(*   event     the last thing that happened: a construction, a setToken,   *)
(*             the invocation of an operation or its settlement            *)
(*   reads     number of localStorage.getItem calls since the page loaded  *)
(* The state of the UserList component (users, loading, error, filters,    *)
(* pending) is described with its handlers further down.                   *)
(***************************************************************************)
ApiInit ==
    /\ store \in Tokens \cup {NULL}
    /\ token = NewToken(store)
    /\ reads = 1
    /\ inflight = EmptyBag
    /\ calls = 0
    /\ event = [kind |-> "constructed"]

\* export const apiService = new ApiService(), at (re)load of the page;
\* whatever was in flight belongs to the page that is gone.
constructor ==
    /\ token' = NewToken(store)
    /\ inflight' = EmptyBag
    /\ reads' = 1
    /\ event' = [kind |-> "constructed"]
    /\ UNCHANGED <<store, calls>>

\* Variant: the requests in flight follow the token.
setToken_RewritesInFlight(t) ==
    /\ token' = setTokenMem(t)
    /\ store' = setTokenStore(store, t)
    /\ inflight' = BagOfAll(LAMBDA r : [r EXCEPT !.config.headers = WithAuth(@, t)],
                            inflight)
    /\ event' = [kind |-> "setToken", arg |-> t]
    /\ UNCHANGED <<calls, reads>>

setToken(t) ==
    /\ token' = setTokenMem(t)
    /\ store' = setTokenStore(store, t)
    /\ event' = [kind |-> "setToken", arg |-> t]
    /\ UNCHANGED <<inflight, calls, reads>>

\* What request(endpoint, options), called by operation op, hands to fetch().
BuildRequest(op, endpoint, options) ==
    [op |-> op, url |-> BuildUrl(endpoint), config |-> BuildConfig(options, token)]

Invoked(op, options, r) ==
    [kind |-> "invoked", op |-> op, options |-> options, request |-> r]

\* Variant: a request equal to one already in flight is not sent again.
Issue_Deduplicates(op, endpoint, options) ==
    /\ calls < MaxCalls
    /\ BagCardinality(inflight) < MaxInFlight
    /\ LET r == BuildRequest(op, endpoint, options)
       IN  /\ inflight' = IF BagIn(r, inflight) THEN inflight
                          ELSE inflight (+) SetToBag({r})
           /\ calls' = IF BagIn(r, inflight) THEN calls ELSE calls + 1
           /\ event' = Invoked(op, options, r)
    /\ UNCHANGED <<token, store, reads>>

\* Variant: every request reads the token back from localStorage first.
Issue_RereadsStore(op, endpoint, options) ==
    /\ calls < MaxCalls
    /\ BagCardinality(inflight) < MaxInFlight
    /\ calls' = calls + 1
    /\ token' = getItem(store)
    /\ reads' = reads + 1
    /\ LET r == [op |-> op, url |-> BuildUrl(endpoint),
                 config |-> BuildConfig(options, getItem(store))]
       IN  /\ inflight' = inflight (+) SetToBag({r})
           /\ event' = Invoked(op, options, r)
    /\ UNCHANGED store

\* request(endpoint, options) up to the call of fetch(url, config).
Issue(op, endpoint, options) ==
    /\ calls < MaxCalls
    /\ BagCardinality(inflight) < MaxInFlight
    /\ calls' = calls + 1
    /\ LET r == BuildRequest(op, endpoint, options)
       IN  /\ inflight' = inflight (+) SetToBag({r})
           /\ event' = Invoked(op, options, r)
    /\ UNCHANGED <<token, store, reads>>

request(hs) == Issue("request", "/auth/me", [headers |-> hs])

login(username, password) ==
    Issue("login", "/auth/login",
          [method |-> "POST",
           body |-> Stringify2("username", JsonStr(username), "password", JsonStr(password))])

logout == Issue("logout", "/auth/logout", [method |-> "POST"])

getCurrentUser == Issue("getCurrentUser", "/auth/me", EmptyObj)

getUsersEndpoint(params) == "/users/?" \o QueryString(params)

getUsers(params) == Issue("getUsers", getUsersEndpoint(params), EmptyObj)

createUser(userData) == Issue("createUser", "/users/", [method |-> "POST", body |-> userData])

updateUserUsername(userId, newUsername) ==
    Issue("updateUserUsername", "/users/" \o ToString(userId) \o "/username",
          [method |-> "PUT",
           body |-> Stringify2("user_id", JsonNum(userId), "new_username", JsonStr(newUsername))])

updateUserRole(userId, newRole) ==
    Issue("updateUserRole", "/users/" \o ToString(userId) \o "/role",
          [method |-> "PUT",
           body |-> Stringify2("user_id", JsonNum(userId), "new_role", JsonStr(newRole))])

updateUserPassword(userId, newPassword) ==
    Issue("updateUserPassword", "/users/" \o ToString(userId) \o "/password",
          [method |-> "PUT",
           body |-> Stringify2("user_id", JsonNum(userId), "new_password", JsonStr(newPassword))])

deactivateUser(userId) ==
    Issue("deactivateUser", "/users/" \o ToString(userId) \o "/deactivate", [method |-> "POST"])

activateUser(userId) ==
    Issue("activateUser", "/users/" \o ToString(userId) \o "/activate", [method |-> "POST"])

\* Variant: the deletion is sent as a POST with a body.
deleteUser_AsPost(userId) ==
    Issue("deleteUser", "/users/" \o ToString(userId),
          [method |-> "POST", body |-> Stringify2("user_id", JsonNum(userId), "delete", "true")])

deleteUser(userId) ==
    Issue("deleteUser", "/users/" \o ToString(userId), [method |-> "DELETE"])

(***************************************************************************)
(* Settlement: fetch() settles with outcome o and the method runs to its   *)
(* end.                                                                    *)
(***************************************************************************)
Settled(r, o, res, result) ==
    [kind |-> "settled", op |-> r.op, outcome |-> o,
     threw |-> res.threw, result |-> result, value |-> res.value,
     error |-> res.error, steps |-> res.steps]

\* login: const data = await this.request(...);
\*        if (data.access_token) this.setToken(data.access_token); return data
\* Variant: the returned token is taken only when no session is active.
loginSets_OnlyWhenAnonymous(res) ==
    ~res.threw /\ Truthy(Get(res.value, "access_token")) /\ ~Truthy(token)

loginSets(res) == ~res.threw /\ Truthy(Get(res.value, "access_token"))

\* Variant: a login that fails ends the session.
settleLogin_ClearsOnFailure(r, o) ==
    LET res == RequestResult(o)
    IN  /\ r.op = "login"
        /\ inflight' = inflight (-) SetToBag({r})
        /\ IF loginSets(res)
           THEN /\ token' = setTokenMem(res.value["access_token"])
                /\ store' = setTokenStore(store, res.value["access_token"])
           ELSE IF res.threw
           THEN /\ token' = setTokenMem(NULL)
                /\ store' = setTokenStore(store, NULL)
           ELSE UNCHANGED <<token, store>>
        /\ event' = Settled(r, o, res, IF res.threw THEN "error" ELSE "value")
        /\ UNCHANGED <<calls, reads>>

settleLogin(r, o) ==
    LET res == RequestResult(o)
    IN  /\ r.op = "login"
        /\ inflight' = inflight (-) SetToBag({r})
        /\ IF loginSets(res)
           THEN /\ token' = setTokenMem(res.value["access_token"])
                /\ store' = setTokenStore(store, res.value["access_token"])
           ELSE UNCHANGED <<token, store>>
        /\ event' = Settled(r, o, res, IF res.threw THEN "error" ELSE "value")
        /\ UNCHANGED <<calls, reads>>

\* logout: await this.request(...); this.setToken(null)
logoutClears(res) == ~res.threw

settleLogout(r, o) ==
    LET res == RequestResult(o)
    IN  /\ r.op = "logout"
        /\ inflight' = inflight (-) SetToBag({r})
        /\ IF logoutClears(res)
           THEN /\ token' = setTokenMem(NULL)
                /\ store' = setTokenStore(store, NULL)
           ELSE UNCHANGED <<token, store>>
        /\ event' = Settled(r, o, res, IF res.threw THEN "error" ELSE "undefined")
        /\ UNCHANGED <<calls, reads>>

\* every other operation: return this.request(...)
PlainOps ==
    {"request", "getCurrentUser", "getUsers", "createUser", "updateUserUsername",
     "updateUserRole", "updateUserPassword", "deactivateUser", "activateUser",
     "deleteUser"}

\* Variant: a 401 response ends the session.
settlePlain_ClearsOn401(r, o) ==
    LET res == RequestResult(o)
    IN  /\ r.op \in PlainOps
        /\ inflight' = inflight (-) SetToBag({r})
        /\ IF o.kind = "response" /\ o.status = 401
           THEN /\ token' = setTokenMem(NULL)
                /\ store' = setTokenStore(store, NULL)
           ELSE UNCHANGED <<token, store>>
        /\ event' = Settled(r, o, res, IF res.threw THEN "error" ELSE "value")
        /\ UNCHANGED <<calls, reads>>

settlePlain(r, o) ==
    LET res == RequestResult(o)
    IN  /\ r.op \in PlainOps
        /\ inflight' = inflight (-) SetToBag({r})
        /\ event' = Settled(r, o, res, IF res.threw THEN "error" ELSE "value")
        /\ UNCHANGED <<token, store, calls, reads>>

(***************************************************************************)
(* The UserList component.                                                 *)
(*   users, loading, error, filters   its useState cells                   *)
(*   pending   the handlers suspended at an await: each loadUsers call     *)
(*             waiting for getUsers, each handleActivate call waiting for  *)
(*             activateUser, with its issue number, the request it waits   *)
(*             for and the filters its closure captured                    *)
(* The component is mounted once; the state below is the one of its first  *)
(* render, before the effect has run.                                      *)
(***************************************************************************)
MaxListCalls == 4

NoUsers == "[]"

DefaultFilters == Filters(PStr(""), PStr(""))

UiInit ==
    /\ users = NoUsers
    /\ loading = TRUE
    /\ error = ""
    /\ filters = DefaultFilters
    /\ pending = {}

(***************************************************************************)
(* The Login form.                                                         *)
(*   credentials   its useState cell {username, password}                  *)
(*   formLoading   its useState cell loading (the submit button is         *)
(*                 disabled while it is true)                              *)
(*   formError     its useState cell error                                 *)
(*   submitting    the handleSubmit calls suspended at await onLogin(...), *)
(*                 each with the credentials it passed                     *)
(*   formEvent     the last submit or settlement of the form               *)
(***************************************************************************)
FormInit ==
    /\ credentials = [username |-> "", password |-> ""]
    /\ formLoading = FALSE
    /\ formError = ""
    /\ submitting = {}
    /\ formEvent = [kind |-> "mounted"]

Init == ApiInit /\ UiInit /\ FormInit

\* if (loading) return <loading>; if (error) return <error>; return <table>
View == IF loading THEN "loading" ELSE IF error # "" THEN "error" ELSE "table"

UsersPayload(u) == "users" :> u

ListOutcomes ==
    { NetworkFailure,
      Response(401, JsonBody(ErrorPayload)),
      Response(200, JsonBody(ErrorPayload)),
      Response(200, JsonBody(UsersPayload("listA"))),
      Response(200, JsonBody(UsersPayload("listB"))) }

\* The values the two <select> elements offer.
FilterChoices ==
    { <<"role", PStr("")>>, <<"role", PStr("ADMIN")>>,
      <<"is_active", PStr("")>>, <<"is_active", PStr("true")>> }

\* setFilters(prev => ({ ...prev, [key]: value, offset: 0 }))
ChangedFilters(f, key, value) ==
    [i \in DOMAIN f |->
        IF f[i].key = key THEN [key |-> key, value |-> value]
        ELSE IF f[i].key = "offset" THEN [key |-> "offset", value |-> PNum(0)]
        ELSE f[i]]

Suspended(kind, r, f) ==
    [seq |-> calls + 1, kind |-> kind, request |-> r, filters |-> f]

\* loadUsers up to its await: setLoading(true); apiService.getUsers(filters),
\* on top of the requests `bag` and the suspended handlers `pend`.
StartLoad(f, bag, pend) ==
    LET r == BuildRequest("getUsers", getUsersEndpoint(f), EmptyObj)
    IN  /\ calls' = calls + 1
        /\ loading' = TRUE
        /\ inflight' = bag (+) SetToBag({r})
        /\ pending' = pend \cup {Suspended("loadUsers", r, f)}
        /\ event' = Invoked("getUsers", EmptyObj, r)

loadUsers(f) ==
    /\ calls < MaxListCalls
    /\ BagCardinality(inflight) < MaxInFlight
    /\ StartLoad(f, inflight, pending)
    /\ UNCHANGED <<users, error, token, store, reads>>

\* useEffect(() => { loadUsers() }, [filters]), after the first render.
mountEffect ==
    /\ calls = 0
    /\ loadUsers(filters)
    /\ UNCHANGED filters

\* <button onClick={loadUsers}>Refresh</button>, rendered with the table.
clickRefresh ==
    /\ calls > 0
    /\ View = "table"
    /\ loadUsers(filters)
    /\ UNCHANGED filters

\* A <select> of the table view changes: setFilters, and the effect runs
\* loadUsers with the new filters.
handleFilterChange(key, value) ==
    /\ calls > 0
    /\ View = "table"
    /\ \E i \in DOMAIN filters : filters[i].key = key /\ filters[i].value # value
    /\ filters' = ChangedFilters(filters, key, value)
    /\ loadUsers(filters')

\* UserActions.handleActivate of a row of the table, up to its await:
\* apiService.activateUser(user.id).  Its onUserUpdate is the handleUserUpdate
\* of the render that drew the row, with that render's filters.
handleActivate(userId) ==
    /\ calls > 0
    /\ View = "table"
    /\ calls < MaxListCalls
    /\ BagCardinality(inflight) < MaxInFlight
    /\ LET r == BuildRequest("activateUser",
                             "/users/" \o ToString(userId) \o "/activate",
                             [method |-> "POST"])
       IN  /\ inflight' = inflight (+) SetToBag({r})
           /\ pending' = pending \cup {Suspended("handleActivate", r, filters)}
           /\ event' = Invoked("activateUser", [method |-> "POST"], r)
    /\ calls' = calls + 1
    /\ UNCHANGED <<users, loading, error, filters, token, store, reads>>

Loaded(p, o, res) ==
    [kind |-> "loaded", seq |-> p.seq, outcome |-> o, threw |-> res.threw,
     value |-> res.value]

\* Variant: the response of a load is dropped while a load issued after it
\* is still waiting.
settleLoadUsers_DropsStale(p, o) ==
    LET res == RequestResult(o)
        stale == \E q \in pending : q.kind = "loadUsers" /\ q.seq > p.seq
    IN  /\ p.kind = "loadUsers"
        /\ inflight' = inflight (-) SetToBag({p.request})
        /\ pending' = pending \ {p}
        /\ IF res.threw
           THEN /\ error' = "Failed to load users"
                /\ users' = users
           ELSE /\ users' = IF stale THEN users ELSE Get(res.value, "users")
                /\ error' = error
        /\ loading' = FALSE
        /\ event' = Loaded(p, o, res)
        /\ UNCHANGED <<filters, token, store, calls, reads>>

\* Variant: a load that succeeds clears the error of an earlier one.
settleLoadUsers_ClearsError(p, o) ==
    LET res == RequestResult(o)
    IN  /\ p.kind = "loadUsers"
        /\ inflight' = inflight (-) SetToBag({p.request})
        /\ pending' = pending \ {p}
        /\ IF res.threw
           THEN /\ error' = "Failed to load users"
                /\ users' = users
           ELSE /\ users' = Get(res.value, "users")
                /\ error' = ""
        /\ loading' = FALSE
        /\ event' = Loaded(p, o, res)
        /\ UNCHANGED <<filters, token, store, calls, reads>>

\* loadUsers after its await:
\*   try { ...; setUsers(data.users) } catch { setError('Failed to load users') }
\*   finally { setLoading(false) }
settleLoadUsers(p, o) ==
    LET res == RequestResult(o)
    IN  /\ p.kind = "loadUsers"
        /\ inflight' = inflight (-) SetToBag({p.request})
        /\ pending' = pending \ {p}
        /\ IF res.threw
           THEN /\ error' = "Failed to load users"
                /\ users' = users
           ELSE /\ users' = Get(res.value, "users")
                /\ error' = error
        /\ loading' = FALSE
        /\ event' = Loaded(p, o, res)
        /\ UNCHANGED <<filters, token, store, calls, reads>>

\* handleActivate after its await: onUserUpdate() when activateUser returned,
\* that is loadUsers with the captured filters; an alert when it threw.
settleActivate(p, o) ==
    LET res == RequestResult(o)
    IN  /\ p.kind = "handleActivate"
        /\ IF res.threw
           THEN /\ inflight' = inflight (-) SetToBag({p.request})
                /\ pending' = pending \ {p}
                /\ event' = Settled(p.request, o, res, "error")
                /\ UNCHANGED <<calls, loading>>
           ELSE /\ calls < MaxListCalls
                /\ StartLoad(p.filters, inflight (-) SetToBag({p.request}),
                             pending \ {p})
        /\ UNCHANGED <<users, error, filters, token, store, reads>>

ListNext ==
    \/ UNCHANGED formVars /\ mountEffect
    \/ UNCHANGED formVars /\ clickRefresh
    \/ UNCHANGED formVars /\ \E c \in FilterChoices : handleFilterChange(c[1], c[2])
    \/ UNCHANGED formVars /\ \E id \in UserIds : handleActivate(id)
    \/ UNCHANGED formVars /\ \E p \in pending, o \in ListOutcomes : settleLoadUsers(p, o)
    \/ UNCHANGED formVars /\ \E p \in pending, o \in ListOutcomes : settleActivate(p, o)

SpecList == Init /\ [][ListNext]_vars

(***************************************************************************)
(* getUsers as a function of its argument: the filters are drawn from the  *)
(* values an object member can hold, and getUsers is called with them      *)
(* once.                                                                   *)
(***************************************************************************)
QueryInputs ==
    {<<>>, << [key |-> "offset", value |-> PNum(0)],
              [key |-> "role", value |-> PStr("ADMIN")] >>}
    \cup { << [key |-> "is_active", value |-> a], [key |-> "role", value |-> r],
              [key |-> "limit", value |-> l], [key |-> "offset", value |-> o] >> :
             a \in {PNull, PUndef, PStr(""), PStr("true"), PBool(FALSE)},
             r \in {PNull, PStr(""), PStr("ADMIN")},
             l \in {PNum(50), PNum(0)},
             o \in {PNum(0), PUndef} }

QueryInit ==
    /\ ApiInit
    /\ users = NoUsers
    /\ loading = TRUE
    /\ error = ""
    /\ filters \in QueryInputs
    /\ pending = {}
    /\ FormInit

queryGetUsers ==
    /\ calls = 0
    /\ getUsers(filters)
    /\ UNCHANGED <<uiVars, formVars>>

QueryNext == queryGetUsers

SpecQuery == QueryInit /\ [][QueryNext]_vars

Next ==
    \/ UNCHANGED <<uiVars, formVars>> /\ constructor
    \/ UNCHANGED <<uiVars, formVars>> /\ \E t \in SetTokenArgs : setToken(t)
    \/ UNCHANGED <<uiVars, formVars>> /\ \E hs \in HeaderSets : request(hs)
    \/ UNCHANGED <<uiVars, formVars>> /\ \E p \in Passwords : login("a", p)
    \/ UNCHANGED <<uiVars, formVars>> /\ logout
    \/ UNCHANGED <<uiVars, formVars>> /\ getCurrentUser
    \/ UNCHANGED <<uiVars, formVars>> /\ \E ps \in ParamSets : getUsers(ps)
    \/ UNCHANGED <<uiVars, formVars>> /\ createUser("{\"username\":\"bob\",\"password\":\"pw\",\"role\":\"USER\"}")
    \/ UNCHANGED <<uiVars, formVars>> /\ \E id \in UserIds : updateUserUsername(id, "bob")
    \/ UNCHANGED <<uiVars, formVars>> /\ \E id \in UserIds : updateUserRole(id, "ADMIN")
    \/ UNCHANGED <<uiVars, formVars>> /\ \E id \in UserIds : updateUserPassword(id, "pw")
    \/ UNCHANGED <<uiVars, formVars>> /\ \E id \in UserIds : deactivateUser(id)
    \/ UNCHANGED <<uiVars, formVars>> /\ \E id \in UserIds : activateUser(id)
    \/ UNCHANGED <<uiVars, formVars>> /\ \E id \in UserIds : deleteUser(id)
    \/ UNCHANGED <<uiVars, formVars>> /\ \E r \in BagToSet(inflight), o \in Outcomes : settleLogin(r, o)
    \/ UNCHANGED <<uiVars, formVars>> /\ \E r \in BagToSet(inflight), o \in Outcomes : settleLogout(r, o)
    \/ UNCHANGED <<uiVars, formVars>> /\ \E r \in BagToSet(inflight), o \in Outcomes : settlePlain(r, o)

Spec == Init /\ [][Next]_vars

(***************************************************************************)
(* The Login form: handleChange edits the credentials, handleSubmit calls  *)
(* the onLogin prop and suspends at its await, and the settlement of       *)
(* onLogin runs the rest of handleSubmit.                                  *)
(***************************************************************************)
Usernames == {"", "a"}

FormPasswords == {"", "bad", "pw"}

\* What the promise of onLogin settles with: a result object, or a rejection.
LoginResolved(success, err) ==
    [kind |-> "resolved", result |-> [success |-> success, error |-> err]]

LoginRejected == [kind |-> "rejected", result |-> [success |-> FALSE, error |-> Undefined]]

LoginOutcomes ==
    { LoginResolved(TRUE, Undefined),
      LoginResolved(FALSE, "Invalid credentials"),
      LoginResolved(FALSE, Undefined),
      LoginRejected }

\* setCredentials(prev => ({...prev, [e.target.name]: e.target.value}))
handleChange(name, value) ==
    /\ credentials' = [credentials EXCEPT ![name] = value]
    /\ UNCHANGED <<formLoading, formError, submitting, formEvent>>
    /\ UNCHANGED <<apiVars, uiVars>>

\* The form can be submitted while the button is enabled and both required
\* inputs are filled in.
CanSubmit ==
    /\ ~formLoading
    /\ credentials.username # ""
    /\ credentials.password # ""

\* handleSubmit up to: await onLogin(credentials.username, credentials.password)
handleSubmit ==
    /\ CanSubmit
    /\ formLoading' = TRUE
    /\ formError' = ""
    /\ submitting' = submitting \cup {credentials}
    /\ formEvent' = [kind |-> "submitted", credentials |-> credentials]
    /\ UNCHANGED credentials
    /\ UNCHANGED <<apiVars, uiVars>>

\* result.error || 'Login failed'
LoginErrorText(result) == IF Truthy(result.error) THEN result.error ELSE "Login failed"

\* The rest of handleSubmit, once onLogin has settled with outcome o: a
\* rejection is thrown by the await and ends the handler there.
settleSubmit(p, o) ==
    /\ p \in submitting
    /\ submitting' = submitting \ {p}
    /\ IF o.kind = "rejected"
       THEN UNCHANGED <<formLoading, formError>>
       ELSE /\ formError' = IF ~o.result.success THEN LoginErrorText(o.result)
                                                ELSE formError
            /\ formLoading' = FALSE
    /\ formEvent' = [kind |-> "settled", credentials |-> p, outcome |-> o]
    /\ UNCHANGED credentials
    /\ UNCHANGED <<apiVars, uiVars>>

LoginNext ==
    \/ \E u \in Usernames : handleChange("username", u)
    \/ \E pw \in FormPasswords : handleChange("password", pw)
    \/ handleSubmit
    \/ \E p \in submitting, o \in LoginOutcomes : settleSubmit(p, o)

SpecLogin == Init /\ [][LoginNext]_vars

(***************************************************************************)
(* Properties.                                                             *)
(***************************************************************************)
Anonymous == ~Truthy(token) /\ store = NULL

SettledOp(op) == event.kind = "settled" /\ event.op = op

\* The request built by the invocation that `event` reports.
Built == event.request

\* A status outside the success range 200..299.
FailureStatus(status) == status < 200 \/ status >= 300

\* The outcome carries a success status and a decodable body.
GoodResponse(o) ==
    o.kind = "response" /\ ~FailureStatus(o.status) /\ o.body.wellformed

\* C1: once a logout() call has settled, the in-memory token and the
\* stored token are both absent, whatever the outcome of POST /auth/logout
\* (success, non-success status, network failure).
C1_LogoutAlwaysAnonymous == SettledOp("logout") => Anonymous

\* C2: in every state the in-memory token and the stored token agree: a
\* token present in memory is the stored value, and when the in-memory token
\* is absent the store slot is empty.
C2_TokenStoreAgree ==
    /\ Truthy(token) => store = token
    /\ ~Truthy(token) => store = NULL

C2_Witness == SettledOp("login") /\ token = "t2" /\ store = "t2"

\* C3: a request built while a session token is active carries
\* Authorization: Bearer <current token>, whatever headers the caller
\* supplied, an Authorization header included.
C3_AuthorizationIsBearer ==
    (event.kind = "invoked" /\ Truthy(token))
        => Get(Built.config.headers, "Authorization") = "Bearer " \o token

C3_Witness ==
    /\ event.kind = "invoked"
    /\ token = "t1"
    /\ Get(OptionHeaders(event.options), "Authorization") = "Basic evil"
    /\ Get(Built.config.headers, "Authorization") = "Bearer t1"

C5_StatusCheckedBeforeBody ==
    (event.kind = "settled" /\ event.outcome.kind = "response"
        /\ FailureStatus(event.outcome.status))
        => ( /\ event.threw
             /\ event.error = "HTTP error! status: " \o ToString(event.outcome.status)
             /\ \A i \in 1..Len(event.steps) : event.steps[i] # "json" )

C5_Witness ==
    /\ event.kind = "settled"
    /\ event.outcome = Response(401, JsonBody(ErrorPayload))
    /\ event.threw
    /\ event.error = "HTTP error! status: 401"

\* C6: a failed request (network failure, non-success status, undecodable
\* body) is logged and then thrown to the caller, never answered with a
\* value; a value is returned only for a success status with a decodable
\* body, and it is the parsed body.
C6_FailuresLoggedAndPropagated ==
    event.kind = "settled" =>
        LET n == Len(event.steps)
        IN  /\ ~GoodResponse(event.outcome) =>
                 /\ event.threw /\ event.result = "error"
                 /\ n >= 2 /\ event.steps[n - 1] = "log" /\ event.steps[n] = "throw"
            /\ ~event.threw =>
                 /\ GoodResponse(event.outcome)
                 /\ event.op # "logout" =>
                      (event.result = "value" /\ event.value = event.outcome.body.json)

C6_Witness ==
    /\ event.kind = "settled"
    /\ event.outcome = Response(200, Malformed)
    /\ event.threw
    /\ event.steps = <<"json", "log", "throw">>

\* C7: when the caller's extra headers do not set Content-Type, the request
\* carries Content-Type: application/json together with every header the
\* caller supplied (Authorization aside, which the session token decides).
C7_DefaultContentTypeKept ==
    (event.kind = "invoked" /\ "Content-Type" \notin DOMAIN OptionHeaders(event.options))
        => /\ Get(Built.config.headers, "Content-Type") = "application/json"
           /\ \A k \in DOMAIN OptionHeaders(event.options) \ {"Authorization"} :
                 Get(Built.config.headers, k) = OptionHeaders(event.options)[k]

\* C8: getCurrentUser and the CRUD operations leave the in-memory token and
\* the stored token unchanged, at invocation and at settlement, whatever the
\* outcome (a 401 response included).
SessionNeutralOps == PlainOps \ {"request"}

C8_CrudLeavesSession ==
    [][ (event' # event /\ event'.kind \in {"invoked", "settled"}
            /\ event'.op \in SessionNeutralOps)
        => (token' = token /\ store' = store) ]_vars

C8_Witness ==
    /\ SettledOp("deleteUser")
    /\ event.outcome.kind = "response" /\ event.outcome.status = 401
    /\ event.threw
    /\ token = "t1" /\ store = "t1"

\* C9: a login whose response has a success status and a body with an
\* access token makes that token the session token, in memory and in the
\* store, whatever the token was before, and returns the response body.
C9_LoginTakesToken ==
    (SettledOp("login") /\ GoodResponse(event.outcome)
        /\ Truthy(Get(event.outcome.body.json, "access_token")))
        => ( /\ token = event.outcome.body.json["access_token"]
             /\ store = event.outcome.body.json["access_token"]
             /\ ~event.threw /\ event.result = "value"
             /\ event.value = event.outcome.body.json )

\* The login took t2 while a request built under the previous token t1 is
\* still in flight.
C9_Witness ==
    /\ SettledOp("login")
    /\ event.outcome = Response(200, JsonBody(TokenPayload("t2")))
    /\ token = "t2" /\ store = "t2"
    /\ \E r \in BagToSet(inflight) : Get(r.config.headers, "Authorization") = "Bearer t1"

\* C10: after setToken(t), an ApiService constructed from the store has
\* token t when t is a token, and no token when t is absent.
SameSession(a, b) == IF Truthy(b) THEN a = b ELSE ~Truthy(a)

C10_PersistenceRoundTrip ==
    event.kind = "setToken" => SameSession(NewToken(store), event.arg)

C10_Witness ==
    /\ event.kind = "setToken" /\ event.arg = "t2"
    /\ NewToken(store) = "t2"

\* A step that changed something.
Step == vars' # vars

\* C11: the query string of getUsers(filters) is, in the filters' own order,
\* key=value for exactly the entries whose value is not null, not undefined
\* and not ''; 0 and false are kept, an omitted entry leaves no key; the
\* filters {is_active:'', role:'ADMIN', limit:50, offset:0} give
\* role=ADMIN&limit=50&offset=0.
C11_Omitted(v) == v.t \in {"null", "undefined"} \/ v = PStr("")

C11_Text(v) ==
    CASE v.t = "num" -> ToString(v.num)
      [] v.t = "bool" -> v.str
      [] v.t = "str" -> v.str

RECURSIVE C11_Join(_)
C11_Join(pairs) ==
    IF Len(pairs) = 0 THEN ""
    ELSE IF Len(pairs) = 1 THEN pairs[1].key \o "=" \o C11_Text(pairs[1].value)
    ELSE C11_Join(SubSeq(pairs, 1, Len(pairs) - 1)) \o "&"
         \o pairs[Len(pairs)].key \o "=" \o C11_Text(pairs[Len(pairs)].value)

C11_QueryOmitsEmptyFilters ==
    (event.kind = "invoked" /\ event.op = "getUsers") =>
        /\ Built.url = "/api/users/?"
               \o C11_Join(SelectSeq(filters, LAMBDA e : ~C11_Omitted(e.value)))
        /\ filters = Filters(PStr(""), PStr("ADMIN"))
               => Built.url = "/api/users/?role=ADMIN&limit=50&offset=0"
        /\ filters = << [key |-> "is_active", value |-> PBool(FALSE)],
                        [key |-> "role", value |-> PNull],
                        [key |-> "limit", value |-> PNum(0)],
                        [key |-> "offset", value |-> PNum(0)] >>
               => Built.url = "/api/users/?is_active=false&limit=0&offset=0"

C11_Witness ==
    /\ event.kind = "invoked" /\ event.op = "getUsers"
    /\ filters = Filters(PStr(""), PStr("ADMIN"))
    /\ Built.url = "/api/users/?role=ADMIN&limit=50&offset=0"

\* C12: every invocation of an operation hands exactly one request to
\* fetch(), a request equal to one in flight included; a settlement, failed
\* or not, takes exactly one request out and issues none.
C12_OneCallPerInvocation ==
    [][ /\ (Step /\ event'.kind = "invoked") =>
               /\ calls' = calls + 1
               /\ inflight' = inflight (+) SetToBag({event'.request})
        /\ (Step /\ event'.kind = "settled") =>
               /\ calls' = calls
               /\ BagCardinality(inflight') = BagCardinality(inflight) - 1 ]_vars

\* Two activateUser(42) calls are in flight as two requests.
C12_Witness ==
    \E r \in BagToSet(inflight) :
        /\ r.op = "activateUser" /\ r.url = "/api/users/42/activate"
        /\ CopiesIn(r, inflight) = 2

\* C14: deleteUser(id) hands fetch() exactly one request: method DELETE,
\* URL /api/users/{id}, no body, and Authorization: Bearer <token> when a
\* session token is active.
C14_DeleteUserRequest ==
    [][ (Step /\ event'.kind = "invoked" /\ event'.op = "deleteUser") =>
            /\ inflight' = inflight (+) SetToBag({event'.request})
            /\ \E id \in UserIds : event'.request.url = "/api/users/" \o ToString(id)
            /\ Get(event'.request.config, "method") = "DELETE"
            /\ "body" \notin DOMAIN event'.request.config
            /\ Truthy(token) =>
                 Get(event'.request.config.headers, "Authorization") = "Bearer " \o token
      ]_vars

C14_Witness ==
    /\ event.kind = "invoked" /\ event.op = "deleteUser"
    /\ Built.url = "/api/users/42"
    /\ Get(Built.config, "method") = "DELETE"
    /\ Get(Built.config.headers, "Authorization") = "Bearer t1"
    /\ CopiesIn(Built, inflight) = 1

\* C15: localStorage is read once per page load, by the constructor, with
\* no operation in flight; the session then holds the stored token if there
\* is one and no token otherwise; no operation reads it again.
C15_StoreReadOnceAtConstruction ==
    /\ reads = 1
    /\ event.kind = "constructed" =>
         /\ inflight = EmptyBag
         /\ store \in Tokens => token = store
         /\ store = NULL => ~Truthy(token)

C15_Witness ==
    /\ SettledOp("getCurrentUser")
    /\ calls = 2
    /\ reads = 1
    /\ token = "t1"

\* C16: after setToken(t) the in-memory token is exactly t, for a token and
\* for an absent value, whatever the session was before.
C16_SetTokenThenRead == event.kind = "setToken" => token = event.arg

C16_Witness ==
    /\ event.kind = "setToken" /\ event.arg = NULL
    /\ token = NULL
    /\ \E r \in BagToSet(inflight) : Get(r.config.headers, "Authorization") = "Bearer t1"

\* C17: a login that fails at the network level, with a non-success status
\* or with an undecodable body raises an error and leaves the in-memory
\* token and the stored token as they were; a login answered with a success
\* status and a decodable body returns normally.
C17_LoginAsymmetry ==
    [][ (Step /\ event'.kind = "settled" /\ event'.op = "login") =>
            /\ ~GoodResponse(event'.outcome) =>
                 /\ event'.threw /\ event'.result = "error"
                 /\ token' = token /\ store' = store
            /\ GoodResponse(event'.outcome) =>
                 (~event'.threw /\ event'.result = "value") ]_vars

C17_Witness ==
    /\ SettledOp("login")
    /\ event.outcome = Response(401, JsonBody(ErrorPayload))
    /\ event.threw
    /\ token = "t1" /\ store = "t1"

\* C18: the Authorization header of a request is fixed from the in-memory
\* token when the operation is invoked; a setToken, or the settlement of a
\* login or logout, leaves every other request in flight as it was built,
\* and the settlement of any other operation leaves the token and the store
\* alone.
C18_TokenReadAtBuildTime ==
    [][ Step =>
          /\ (event'.kind = "invoked" /\ Truthy(token)) =>
                Get(event'.request.config.headers, "Authorization") = "Bearer " \o token
          /\ event'.kind = "setToken" => inflight' = inflight
          /\ event'.kind = "settled" =>
                \E r \in BagToSet(inflight) :
                    r.op = event'.op /\ inflight' = inflight (-) SetToBag({r})
          /\ (event'.kind = "settled" /\ event'.op \in PlainOps) =>
                (token' = token /\ store' = store) ]_vars

\* A logout has cleared the session while a request built under t1 is still
\* in flight.
C18_Witness ==
    /\ SettledOp("logout") /\ ~event.threw
    /\ Anonymous
    /\ \E r \in BagToSet(inflight) : Get(r.config.headers, "Authorization") = "Bearer t1"

\* C19: a request built while no token is active gets no Authorization
\* header from the client: it carries one only if the caller's headers do,
\* and the operation is sent all the same.
C19_AnonymousNoAuthorization ==
    (event.kind = "invoked" /\ ~Truthy(token)) =>
        /\ Get(Built.config.headers, "Authorization")
               = Get(OptionHeaders(event.options), "Authorization")
        /\ BagIn(Built, inflight)

C19_Witness ==
    /\ event.kind = "invoked" /\ event.op = "deleteUser"
    /\ token = NULL
    /\ "Authorization" \notin DOMAIN Built.config.headers
    /\ BagIn(Built, inflight)

\* C13: a loadUsers call whose request returns puts the users of that
\* response into the list state, whatever loads were issued before or after
\* it and whether or not they have settled; nothing but its own settlement
\* takes a waiting load or its request away.
C13_LastResponseWins ==
    [][ Step =>
          /\ (event'.kind = "loaded" /\ ~event'.threw) =>
                users' = Get(event'.value, "users")
          /\ event'.kind # "loaded" =>
                \A q \in pending : q.kind = "loadUsers" =>
                    (q \in pending' /\ BagIn(q.request, inflight')) ]_vars

\* The load issued third answers after the load issued fourth, and the list
\* holds the third load's users.
C13_Witness ==
    /\ event.kind = "loaded" /\ event.seq = 3 /\ ~event.threw
    /\ calls = 4
    /\ pending = {}
    /\ users = "listA"

\* C20: once the error message of the list is set it stays set; a load that
\* succeeds afterwards updates the users, and the component shows the error,
\* not the table.
C20_ErrorSticky ==
    [][ error # "" =>
          /\ error' # ""
          /\ (Step /\ event'.kind = "loaded" /\ ~event'.threw) =>
                (users' = Get(event'.value, "users") /\ View' = "error") ]_vars

C20_Witness ==
    /\ event.kind = "loaded" /\ ~event.threw
    /\ error = "Failed to load users"
    /\ users = "listB"
    /\ View = "error"

\* C21: in the login form every submit re-enables the submit button: once
\* the onLogin call of a submit has settled, resolved (with or without
\* success) or rejected, loading is false again.
C21_SubmitReenablesButton ==
    formEvent.kind = "settled" => ~formLoading

====
